---------------------------- MODULE Spec2Model ----------------------------
(***************************************************************************)
(* A model of the Dubai restaurant directory backend: the bearer-token     *)
(* verifier (authenticateToken), the login handler, and the restaurant     *)
(* routes, over the relational schema of setupSchema.ts.                    *)
(*                                                                         *)
(* The source tree holds several historical versions of the same routes.   *)
(* Each version is modelled as its own handler, under its own name:        *)
(*   LoginV1             server.ts 118-168   (validates its input)         *)
(*   LoginV2             server.ts 312-352   (no input validation)         *)
(*   CreateRouter        part_002 57-143     (router, field list, 409)     *)
(*   CreateEarlier       part_001 37-76      (router, earlier version)     *)
(*   CreateServer        server.ts 374-402   (inline handler)              *)
(*   UpdateBegin/Finish  part_002 212-268    (SELECT, then UPDATE)         *)
(*   DeleteBegin/Finish  part_002 271-292    (SELECT, then DELETE)         *)
(*   ImportRecord        part_005 119-206    (upsert on google_place_id)   *)
(*   ImportRecordEarlier part_009 59-127     (upsert, earlier version)     *)
(*   PlacesSearch/Details part_003 10-35     (places routes)               *)
(*   Attempt, Retry      server.ts 206-239   (startServer)                 *)
(* Time is counted in hours.  Values of request bodies and of table        *)
(* columns are tagged records, [t |-> type, v |-> value].                  *)
(***************************************************************************)
EXTENDS Integers, Sequences, FiniteSets, TLC

VARIABLES
    users,        \* table users: id -> row
    restaurants,  \* table restaurants: a set of rows
    nextId,       \* the sequence behind restaurants.id (SERIAL)
    now,          \* the clock, in hours
    env,          \* process.env.NODE_ENV
    req,          \* the request being answered, and when it arrived
    res,          \* the responses sent for it, in order
    reqUser,      \* req.user, the identity the verifier attached
    nextCalls,    \* how often the verifier called next()
    stmts,        \* the storage statements the request issued, in order
    createdFrom,  \* history: id -> the request body its row was created from
    clock,        \* the storage's clock: CURRENT_TIMESTAMP of the next statement
    pending,      \* update and delete handlers between their two statements
    updatedFrom,  \* history: id -> the latest update that changed its row
    deleted,      \* history: the ids a delete answered 204 for
    boot          \* startServer: where it stands and what it did so far

vars == <<users, restaurants, nextId, now, env, req, res, reqUser, nextCalls, stmts,
          createdFrom, clock, pending, updatedFrom, deleted, boot>>

---------------------------------------------------------------------------
(* Bounds of the model *)

\* hours that pass in one step of the clock
ClockStep == 12
\* the clock stops here
MaxClock == 36
\* ids the restaurants sequence hands out before the model stops inserting
MaxId == 2
\* the same, where every shape of Authorization header is tried
AuthMaxId == 1
\* the storage clock value past which no further update or delete begins
MaxStamp == 3

---------------------------------------------------------------------------
(* Values: JSON values of a request body, SQL values of a column *)

Undefined == [t |-> "undefined"]
Null == [t |-> "null"]
Str(s) == [t |-> "string", v |-> s]
Bool(b) == [t |-> "boolean", v |-> b]
Arr(q) == [t |-> "array", v |-> q]
\* a decimal number i.f, f counted in units of 10^-InputScale
Dec(i, f) == [i |-> i, f |-> f]
Num(d) == [t |-> "number", v |-> d]
IntVal(n) == Num(Dec(n, 0))

\* a test that takes only undefined and null as missing: value == null
FalsyNullish(x) == x.t \in {"undefined", "null"}

\* !value of JavaScript
Falsy(x) ==
    \/ x.t \in {"undefined", "null"}
    \/ x.t = "string" /\ x.v = ""
    \/ x.t = "number" /\ x.v = Dec(0, 0)
    \/ x.t = "boolean" /\ x.v = FALSE

\* node-postgres sends an undefined parameter as NULL
PgParam(x) == IF x.t = "undefined" THEN Null ELSE x

---------------------------------------------------------------------------
(* bcrypt *)

\* a salted hash: the digest is a function of salt and password
BcryptHash(pw, salt) == [alg |-> "bcrypt", salt |-> salt, digest |-> <<salt, pw>>]

\* bcrypt.compare(data, hash): re-hash data with the salt of hash
BcryptCompare(pw, hash) == BcryptHash(pw, hash.salt) = hash

---------------------------------------------------------------------------
(* jsonwebtoken *)

JWT_SECRET == "server-secret"
OtherSecret == "other-secret"
\* expiresIn: '24h'
TokenTTL == 24

\* HMAC of a payload under a key
Hmac(key, payload) == [key |-> key, over |-> payload]

\* jwt.sign(claims, secret, {expiresIn: '24h'}) at time t
JwtSign(claims, secret, t) ==
    LET payload == [id |-> claims.id, email |-> claims.email, role |-> claims.role,
                    iat |-> t, exp |-> t + TokenTTL]
    IN  [kind |-> "jwt", payload |-> payload, sig |-> Hmac(secret, payload)]

\* jwt.verify(token, secret, callback) at time t: the callback's (err, user)
JwtVerify(tok, secret, t) ==
    IF tok.kind # "jwt" THEN [err |-> TRUE]                        \* jwt malformed
    ELSE IF tok.sig # Hmac(secret, tok.payload) THEN [err |-> TRUE] \* invalid signature
    ELSE IF t >= tok.payload.exp THEN [err |-> TRUE]               \* jwt expired
    ELSE [err |-> FALSE, user |-> tok.payload]

---------------------------------------------------------------------------
(* The Authorization header *)

\* the symbols of a header value: a space, a scheme word, a token
Sp == [k |-> "sp"]
Word(w) == [k |-> "word", w |-> w]
Tok(tok) == [k |-> "token", tok |-> tok]

NoHeader == [present |-> FALSE, sym |-> <<>>]
Header(q) == [present |-> TRUE, sym |-> q]

RECURSIVE SplitAt(_, _, _, _)
SplitAt(s, i, cur, acc) ==
    IF i > Len(s) THEN Append(acc, cur)
    ELSE IF s[i] = Sp THEN SplitAt(s, i + 1, <<>>, Append(acc, cur))
    ELSE SplitAt(s, i + 1, Append(cur, s[i]), acc)

\* authHeader.split(' '): the parts between the spaces, empty parts kept
Split(s) == SplitAt(s, 1, <<>>, <<>>)

NoPart == [defined |-> FALSE, sym |-> <<>>]
Part(q) == [defined |-> TRUE, sym |-> q]

\* authHeader && authHeader.split(' ')[1]
HeaderToken(header) ==
    IF ~header.present THEN NoPart
    ELSE IF header.sym = <<>> THEN Part(<<>>)
    ELSE LET parts == Split(header.sym)
         IN  IF Len(parts) < 2 THEN NoPart ELSE Part(parts[2])

\* the string handed to jwt.verify, read as a token: anything but one whole
\* token is malformed
PartToken(part) ==
    IF Len(part.sym) = 1 /\ part.sym[1].k = "token" THEN part.sym[1].tok
    ELSE [kind |-> "garbage"]

Response(status, body) == [status |-> status, body |-> body]

\* a response as sent, with who sent it: the verifier or the route's handler
Sent(by, r) == [by |-> by, status |-> r.status, body |-> r.body]

\* authenticateToken with the missing token let through
AuthenticateTokenOptional(header) ==
    LET token == HeaderToken(header)
    IN  IF ~token.defined \/ token.sym = <<>>
        THEN [sent |-> <<>>, user |-> Undefined, next |-> 1]
        ELSE LET v == JwtVerify(PartToken(token), JWT_SECRET, now)
             IN  IF v.err
                 THEN [sent |-> <<Response(403, [error |-> "Invalid token"])>>,
                       user |-> Undefined, next |-> 0]
                 ELSE [sent |-> <<>>, user |-> v.user, next |-> 1]

\* authenticateToken without the return in front of its 403
AuthenticateTokenNoReturn(header) ==
    LET token == HeaderToken(header)
    IN  IF ~token.defined \/ token.sym = <<>>
        THEN [sent |-> <<Response(401, [error |-> "Authentication required"])>>,
              user |-> Undefined, next |-> 0]
        ELSE LET v == JwtVerify(PartToken(token), JWT_SECRET, now)
             IN  IF v.err
                 THEN [sent |-> <<Response(403, [error |-> "Invalid token"])>>,
                       user |-> Undefined, next |-> 1]
                 ELSE [sent |-> <<>>, user |-> v.user, next |-> 1]

\* authenticateToken without req.user = user
AuthenticateTokenNoUser(header) ==
    LET token == HeaderToken(header)
    IN  IF ~token.defined \/ token.sym = <<>>
        THEN [sent |-> <<Response(401, [error |-> "Authentication required"])>>,
              user |-> Undefined, next |-> 0]
        ELSE LET v == JwtVerify(PartToken(token), JWT_SECRET, now)
             IN  IF v.err
                 THEN [sent |-> <<Response(403, [error |-> "Invalid token"])>>,
                       user |-> Undefined, next |-> 0]
                 ELSE [sent |-> <<>>, user |-> Undefined, next |-> 1]

\* authenticateToken(req, res, next): the responses it sends, the identity it
\* attaches to the request, and how often it calls next()
AuthenticateToken(header) ==
    LET token == HeaderToken(header)
    IN  IF ~token.defined \/ token.sym = <<>>
        THEN [sent |-> <<Response(401, [error |-> "Authentication required"])>>,
              user |-> Undefined, next |-> 0]
        ELSE LET v == JwtVerify(PartToken(token), JWT_SECRET, now)
             IN  IF v.err
                 THEN [sent |-> <<Response(403, [error |-> "Invalid token"])>>,
                       user |-> Undefined, next |-> 0]
                 ELSE [sent |-> <<>>, user |-> v.user, next |-> 1]

---------------------------------------------------------------------------
(* The users table and the login handlers *)

AdminEmail == "exanimosai@gmail.com"
AdminPassword == "dubaiFun25"
UserEmail == "a@x.com"
UserPassword == "secret"

Timestamp(n) == [t |-> "timestamp", v |-> n]

\* the rows setupAdmin.ts and an out-of-band signup leave in users
SeededUsers ==
    (1 :> [id |-> 1, email |-> AdminEmail,
           password_hash |-> BcryptHash(AdminPassword, "salt1"),
           name |-> "Admin User", role |-> "admin",
           created_at |-> 0, last_login |-> Null])
    @@
    (2 :> [id |-> 2, email |-> UserEmail,
           password_hash |-> BcryptHash(UserPassword, "salt2"),
           name |-> "A User", role |-> "user",
           created_at |-> 0, last_login |-> Null])

\* SELECT * FROM users WHERE email = $1
SelectUserByEmail(param) ==
    {users[i] : i \in {j \in DOMAIN users : Str(users[j].email) = PgParam(param)}}

\* an UPDATE of last_login without its WHERE
UpdateLastLoginAll(id) ==
    [i \in DOMAIN users |-> [users[i] EXCEPT !.last_login = Timestamp(now)]]

\* UPDATE users SET last_login = CURRENT_TIMESTAMP WHERE id = $1
UpdateLastLogin(id) ==
    [i \in DOMAIN users |->
        IF i = id THEN [users[i] EXCEPT !.last_login = Timestamp(now)] ELSE users[i]]

\* the body of a 500 whose detail is shown in development only
ErrorWithDetails(msg) ==
    IF env = "development"
    THEN [error |-> msg, details |-> "storage failure"]
    ELSE [error |-> msg]

LoginOutcome(response, newUsers, issued) ==
    [res |-> response, users |-> newUsers, stmts |-> issued]

\* the claims a token is issued with: { id, email, role } of the user's row
Claims(u) == [id |-> u.id, email |-> u.email, role |-> u.role]

\* the response with the whole users row in it
LoginSuccessBodyLeaky(user) ==
    [token |-> JwtSign(Claims(user), JWT_SECRET, now), user |-> user]

\* res.json({token, user: {id, email, role, name}})
LoginSuccessBody(user) ==
    [token |-> JwtSign(Claims(user), JWT_SECRET, now),
     user |-> [id |-> user.id, email |-> user.email, role |-> user.role,
               name |-> user.name]]

\* an answer that tells an unknown email from a wrong password
LoginRejectTelling(rows) ==
    IF rows = {} THEN Response(404, [error |-> "User not found"])
    ELSE Response(401, [error |-> "Invalid credentials"])

\* the answer to an unknown email or a wrong password
LoginReject(rows) == Response(401, [error |-> "Invalid credentials"])

\* the handler from the SELECT on, common to both versions; failAt is the
\* statement the storage fails on (0: none); msg the text of this version's 500
LoginFrom(body, failAt, msg500) ==
    IF failAt = 1
    THEN LoginOutcome(Response(500, msg500), users, <<"SELECT users">>)
    ELSE LET rows == SelectUserByEmail(body.email)
         IN  IF rows = {}
             THEN LoginOutcome(LoginReject(rows), users, <<"SELECT users">>)
             ELSE LET user == CHOOSE u \in rows : TRUE
                  IN  IF body.password.t # "string"
                      \* bcrypt.compare rejects: data and hash arguments required
                      THEN LoginOutcome(Response(500, msg500), users, <<"SELECT users">>)
                      ELSE IF ~BcryptCompare(body.password.v, user.password_hash)
                      THEN LoginOutcome(LoginReject(rows), users, <<"SELECT users">>)
                      ELSE IF failAt = 2
                      THEN LoginOutcome(Response(500, msg500), users,
                                        <<"SELECT users", "UPDATE users">>)
                      ELSE LoginOutcome(Response(200, LoginSuccessBody(user)),
                                        UpdateLastLogin(user.id),
                                        <<"SELECT users", "UPDATE users">>)

\* POST /api/auth/login, first version
LoginV1Handler(body, failAt) ==
    IF Falsy(body.email) \/ Falsy(body.password)
    THEN LoginOutcome(Response(400, [error |-> "Email and password required"]),
                      users, <<>>)
    ELSE LoginFrom(body, failAt, ErrorWithDetails("Server error during login"))

\* POST /api/auth/login, second version
LoginV2Handler(body, failAt) ==
    LoginFrom(body, failAt, [error |-> "Server error"])

LoginHandler(version, body, failAt) ==
    IF version = "v1" THEN LoginV1Handler(body, failAt) ELSE LoginV2Handler(body, failAt)

\* the login bodies tried
LoginEmails == {Undefined, Str(""), Str(AdminEmail), Str(UserEmail), Str("nobody@x.com")}
LoginPasswords == {Undefined, Str(""), Str(AdminPassword), Str(UserPassword), Str("wrong")}
LoginBodies == [email : LoginEmails, password : LoginPasswords]

Login(version, body, failAt) ==
    LET out == LoginHandler(version, body, failAt)
    IN  /\ req' = [route |-> "login", version |-> version, header |-> NoHeader,
                   body |-> body, failAt |-> failAt, at |-> now]
        /\ res' = <<Sent("handler", out.res)>>
        /\ users' = out.users
        /\ stmts' = out.stmts
        /\ reqUser' = Undefined
        /\ nextCalls' = 0
        /\ UNCHANGED <<restaurants, nextId, now, env, createdFrom, clock, pending,
                       updatedFrom, deleted, boot>>

LoginV1 == \E body \in LoginBodies, failAt \in 0..2 : Login("v1", body, failAt)
LoginV2 == \E body \in LoginBodies, failAt \in 0..2 : Login("v2", body, failAt)

\* time passes
Tick ==
    /\ now + ClockStep <= MaxClock
    /\ now' = now + ClockStep
    /\ UNCHANGED <<users, restaurants, nextId, env, req, res, reqUser, nextCalls, stmts,
                   createdFrom, clock, pending, updatedFrom, deleted, boot>>

\* let retries = 5
Retries == 5
\* setTimeout(resolve, 5000), in milliseconds
RetryDelay == 5000

\* process.env.PORT: a port that can be bound, one another process holds, and
\* one app.listen refuses (not a number, or outside 0..65535)
Ports == {"free", "taken", "bad"}

\* startServer as the process begins: nothing probed, nothing waited for
Starting(port) ==
    [pc |-> "probe", port |-> port, retries |-> Retries, probeLog |-> <<>>,
     delays |-> 0, waited |-> 0, listens |-> 0, exit |-> {}]

\* startServer after its first probe succeeded and app.listen was called
Listening ==
    [Starting("free") EXCEPT !.pc = "listening", !.probeLog = <<TRUE>>, !.listens = 1]

NoRequest == [route |-> "none", version |-> "", header |-> NoHeader,
              body |-> Undefined, failAt |-> 0, at |-> 0]

\* the state of everything but the startup
Fresh ==
    /\ users = SeededUsers
    /\ restaurants = {}
    /\ nextId = 1
    /\ now = 0
    /\ env \in {"development", "production"}
    /\ req = NoRequest
    /\ res = <<>>
    /\ reqUser = Undefined
    /\ nextCalls = 0
    /\ stmts = <<>>
    /\ createdFrom = <<>>
    /\ clock = 1
    /\ pending = <<>>
    /\ updatedFrom = <<>>
    /\ deleted = {}

\* the server up and listening
Init == Fresh /\ boot = Listening

NextLogin == LoginV1 \/ LoginV2 \/ Tick

SpecLogin == Init /\ [][NextLogin]_vars

----------------------------------------------------------------------------
(* Process startup (server.ts 206-239) *)

\* the catch of the loop with one attempt fewer: retries -= 1, then either the
\* wait before the next attempt or process.exit(1)
FailedOffByOne(b) ==
    LET left == b.retries - 1
    IN  IF left > 1
        THEN [b EXCEPT !.retries = left, !.pc = "delay"]
        ELSE [b EXCEPT !.retries = left, !.pc = "exited", !.exit = {1}]

\* the catch of the loop: retries -= 1, then either the wait before the next
\* attempt or process.exit(1)
Failed(b) ==
    LET left == b.retries - 1
    IN  IF left # 0
        THEN [b EXCEPT !.retries = left, !.pc = "delay"]
        ELSE [b EXCEPT !.retries = left, !.pc = "exited", !.exit = {1}]

\* app.listen(PORT, '0.0.0.0', ...) and the return after it. A port out of
\* range makes listen throw, which the catch of the loop takes as a failed
\* attempt; a port already bound makes the server emit 'error' with no
\* listener, which the uncaughtException handler answers with process.exit(1)
Listen(b) ==
    CASE b.port = "bad"   -> Failed(b)
      [] b.port = "taken" -> [b EXCEPT !.pc = "exited", !.exit = {1}]
      [] b.port = "free"  -> [b EXCEPT !.pc = "listening", !.listens = @ + 1]

\* one pass of the try block: the probe SELECT NOW() settles, then listen or
\* the catch
AttemptFrom(b, probeOk) ==
    LET probed == [b EXCEPT !.probeLog = Append(@, probeOk)]
    IN  IF probeOk THEN Listen(probed) ELSE Failed(probed)

Attempt ==
    /\ boot.pc = "probe"
    /\ \E probeOk \in BOOLEAN : boot' = AttemptFrom(boot, probeOk)
    /\ UNCHANGED <<users, restaurants, nextId, now, env, req, res, reqUser, nextCalls,
                   stmts, createdFrom, clock, pending, updatedFrom, deleted>>

\* the timer of the wait fires and the loop comes round: while (retries)
Retry ==
    /\ boot.pc = "delay"
    /\ boot' = [boot EXCEPT !.delays = @ + 1, !.waited = @ + RetryDelay,
                            !.pc = IF boot.retries # 0 THEN "probe" ELSE "returned"]
    /\ UNCHANGED <<users, restaurants, nextId, now, env, req, res, reqUser, nextCalls,
                   stmts, createdFrom, clock, pending, updatedFrom, deleted>>

\* a request reaches the application only once it listens
ServedBodies ==
    {[email |-> Str(UserEmail), password |-> pw] : pw \in {Str(UserPassword), Str("wrong")}}
Served ==
    /\ boot.pc = "listening"
    /\ \E body \in ServedBodies, failAt \in {0, 2} : Login("v1", body, failAt)

\* hours pass while the process lives
Lives == boot.pc # "exited" /\ Tick

InitBoot == Fresh /\ \E port \in Ports : boot = Starting(port)

NextBoot == Attempt \/ Retry \/ Served \/ Lives

\* the process from its start; a probe that was sent settles and a timer that
\* was set fires
SpecBoot == InitBoot /\ [][NextBoot]_vars /\ WF_vars(Attempt) /\ WF_vars(Retry)

---------------------------------------------------------------------------
(* The restaurants table (setupSchema.ts) *)

VenueCategory == {"Bar", "Restaurant", "Cafe"}
SeatingType == {"Indoor", "Al Fresco", "Both"}

\* latitude DECIMAL(10, 8), longitude DECIMAL(11, 8)
LatPrecision == 10
LatScale == 8
LonPrecision == 11
LonScale == 8
\* the decimals of a request carry one digit more than a column keeps
InputScale == LatScale + 1

RECURSIVE Pow10(_)
Pow10(n) == IF n = 0 THEN 1 ELSE 10 * Pow10(n - 1)

\* NUMERIC(precision, scale) that cuts the digits off instead of rounding
ToNumericTruncate(d, precision, scale) ==
    LET unit == Pow10(InputScale - scale)
    IN  [overflow |-> d.i >= Pow10(precision - scale),
         value |-> Dec(d.i, (d.f \div unit) * unit)]

\* a number stored in a NUMERIC(precision, scale) column: rounded half up to
\* scale digits; too many integer digits overflow
ToNumeric(d, precision, scale) ==
    LET unit == Pow10(InputScale - scale)
        q == (d.f \div unit) + (IF 2 * (d.f % unit) >= unit THEN 1 ELSE 0)
        carry == q >= Pow10(scale)
        i2 == IF carry THEN d.i + 1 ELSE d.i
    IN  [overflow |-> i2 >= Pow10(precision - scale),
         value |-> Dec(i2, IF carry THEN 0 ELSE q * unit)]

PayloadFields == {"name", "category", "price_range", "vibe", "latitude", "longitude",
                  "address", "seating", "is_licensed", "has_shisha", "google_place_id"}

\* the parameters as node-postgres sends them
PgParams(cols) == [k \in DOMAIN cols |-> PgParam(cols[k])]

\* a parameter the server cannot read as a value of the column's type
BadInput(c) ==
    \/ ~(c.name.t \in {"null", "string"})
    \/ ~(c.category = Null \/ (c.category.t = "string" /\ c.category.v \in VenueCategory))
    \/ ~(c.price_range.t \in {"null", "string"})
    \/ ~(c.vibe.t \in {"null", "array"})
    \/ ~(c.latitude.t \in {"null", "number"})
    \/ ~(c.longitude.t \in {"null", "number"})
    \/ ~(c.address.t \in {"null", "string"})
    \/ ~(c.seating = Null \/ (c.seating.t = "string" /\ c.seating.v \in SeatingType))
    \/ ~(c.is_licensed.t \in {"null", "boolean"})
    \/ ~(c.has_shisha.t \in {"null", "boolean"})
    \/ ~(c.google_place_id.t \in {"null", "string"})

StoredNumeric(x, precision, scale) ==
    IF x = Null THEN Null ELSE Num(ToNumeric(x.v, precision, scale).value)

NumericOverflow(x, precision, scale) ==
    x # Null /\ ToNumeric(x.v, precision, scale).overflow

\* a table without the UNIQUE constraint on google_place_id
UniqueViolationOff(table, c) == FALSE

\* google_place_id VARCHAR(255) UNIQUE: NULLs never collide
UniqueViolation(table, c) ==
    c.google_place_id # Null /\
    \E r \in table : r.google_place_id = c.google_place_id

\* added_by, last_modified_by INTEGER REFERENCES users(id)
ForeignKeyViolation(c) ==
    \E k \in {"added_by", "last_modified_by"} :
        c[k] # Null /\ ~(\E i \in DOMAIN users : IntVal(i) = c[k])

StorageError(code, msg, detail) ==
    [ok |-> FALSE, code |-> code, message |-> msg, detail |-> detail]

\* the row an INSERT builds from its columns: id from the sequence, rating
\* left NULL, both timestamps CURRENT_TIMESTAMP, which differs from one write
\* statement to the next
NewRow(c, id) ==
    [id |-> id, name |-> c.name, category |-> c.category,
     price_range |-> c.price_range, vibe |-> c.vibe,
     latitude |-> StoredNumeric(c.latitude, LatPrecision, LatScale),
     longitude |-> StoredNumeric(c.longitude, LonPrecision, LonScale),
     address |-> c.address, seating |-> c.seating,
     is_licensed |-> c.is_licensed, has_shisha |-> c.has_shisha,
     google_place_id |-> c.google_place_id, rating |-> Null,
     added_by |-> c.added_by, last_modified_by |-> c.last_modified_by,
     created_at |-> clock, updated_at |-> clock]

\* INSERT INTO restaurants (...) VALUES (...) RETURNING *, with c the columns
\* (a column the statement leaves out is NULL); down: the storage is
\* unreachable.  The result, the table and the sequence after it.
Insert(c, down) ==
    IF down
    THEN [result |-> StorageError("08006", "connection failure", ""),
          table |-> restaurants, nextId |-> nextId]
    ELSE IF BadInput(c)
    THEN [result |-> StorageError("22P02", "invalid input value", ""),
          table |-> restaurants, nextId |-> nextId]
    ELSE IF \/ NumericOverflow(c.latitude, LatPrecision, LatScale)
            \/ NumericOverflow(c.longitude, LonPrecision, LonScale)
    THEN [result |-> StorageError("22003", "numeric field overflow", ""),
          table |-> restaurants, nextId |-> nextId + 1]
    ELSE IF c.name = Null
    THEN [result |-> StorageError("23502", "null value in column name", ""),
          table |-> restaurants, nextId |-> nextId + 1]
    ELSE IF UniqueViolation(restaurants, c)
    THEN [result |-> StorageError("23505", "duplicate key value",
                                  "Key (google_place_id) already exists."),
          table |-> restaurants, nextId |-> nextId + 1]
    ELSE IF ForeignKeyViolation(c)
    THEN [result |-> StorageError("23503", "foreign key violation", ""),
          table |-> restaurants, nextId |-> nextId + 1]
    ELSE [result |-> [ok |-> TRUE, row |-> NewRow(c, nextId)],
          table |-> restaurants \cup {NewRow(c, nextId)},
          nextId |-> nextId + 1]

---------------------------------------------------------------------------
(* The restaurant routes *)

\* what a handler did: the response, the table and the sequence after it, the
\* statements it issued
Outcome(response, table, seq, issued) ==
    [res |-> response, table |-> table, nextId |-> seq, stmts |-> issued]

\* (req as any).user?.id
ActorId(user) == IF user = Undefined THEN Null ELSE IntVal(user.id)

\* the fields router.post('/') requires, in the order of its object literal
RequiredFields == <<"name", "category", "latitude", "longitude", "address", "seating">>

\* Object.entries(requiredFields).filter(([_, value]) => !value).map(([key]) => key)
MissingFields(body) ==
    SelectSeq(RequiredFields, LAMBDA k : Falsy(body[k]))

\* the columns of the router's INSERT: the eleven body fields and added_by
CreateColumns(body, user) ==
    PgParams(body) @@ [added_by |-> ActorId(user), last_modified_by |-> Null]

\* the catch of router.post('/'): a unique violation is a 409 that carries the
\* storage's detail; anything else a 500 whose detail shows in development
RouterFailure(e) ==
    IF e.code = "23505"
    THEN Response(409, [error |-> "Restaurant already exists", detail |-> e.detail])
    ELSE Response(500, IF env = "development"
                       THEN [error |-> "Failed to create restaurant",
                             detail |-> e.message]
                       ELSE [error |-> "Failed to create restaurant"])

\* router.post('/'), part_002
CreateRouterHandler(body, user, down) ==
    IF Len(MissingFields(body)) > 0
    THEN Outcome(Response(400, [error |-> "Missing required fields",
                                missingFields |-> MissingFields(body)]),
                 restaurants, nextId, <<>>)
    ELSE LET ins == Insert(CreateColumns(body, user), down)
         IN  Outcome(IF ins.result.ok THEN Response(201, ins.result.row)
                     ELSE RouterFailure(ins.result),
                     ins.table, ins.nextId, <<"INSERT restaurants">>)

\* router.post('/'), part_001: four required fields, no attribution columns,
\* every storage error a 500
CreateEarlierHandler(body, user, down) ==
    IF \E k \in {"name", "address", "latitude", "longitude"} : Falsy(body[k])
    THEN Outcome(Response(400, [error |-> "Missing required fields"]),
                 restaurants, nextId, <<>>)
    ELSE LET ins == Insert(PgParams(body) @@ [added_by |-> Null,
                                               last_modified_by |-> Null], down)
         IN  Outcome(IF ins.result.ok THEN Response(201, ins.result.row)
                     ELSE Response(500, [error |-> "Failed to create restaurant"]),
                     ins.table, ins.nextId, <<"INSERT restaurants">>)

\* app.post('/api/restaurants'), server.ts: no validation, both attribution
\* columns, every storage error a 500
CreateServerHandler(body, user, down) ==
    IF user = Undefined
    \* req.user.id throws, and the catch answers
    THEN Outcome(Response(500, [error |-> "Failed to add restaurant"]),
                 restaurants, nextId, <<>>)
    ELSE
    LET ins == Insert(PgParams(body) @@ [added_by |-> IntVal(user.id),
                                         last_modified_by |-> IntVal(user.id)], down)
    IN  Outcome(IF ins.result.ok THEN Response(201, ins.result.row)
                ELSE Response(500, [error |-> "Failed to add restaurant"]),
                ins.table, ins.nextId, <<"INSERT restaurants">>)

\* SELECT * FROM restaurants WHERE id = $1, the id taken from the path
SelectById(id) == {r \in restaurants : IntVal(r.id) = id}

\* router.get('/:id') without its check for an empty result
GetByIdHandlerNoCheck(id, down) ==
    IF down \/ id.t # "number"
    THEN Outcome(Response(500, [error |-> "Failed to fetch restaurant"]),
                 restaurants, nextId, <<"SELECT restaurants">>)
    ELSE IF SelectById(id) = {}
    THEN Outcome(Response(200, Undefined), restaurants, nextId, <<"SELECT restaurants">>)
    ELSE Outcome(Response(200, CHOOSE r \in SelectById(id) : TRUE),
                 restaurants, nextId, <<"SELECT restaurants">>)

\* router.get('/:id'), part_002
GetByIdHandler(id, down) ==
    IF down \/ id.t # "number"
    THEN Outcome(Response(500, [error |-> "Failed to fetch restaurant"]),
                 restaurants, nextId, <<"SELECT restaurants">>)
    ELSE IF SelectById(id) = {}
    THEN Outcome(Response(404, [error |-> "Restaurant not found"]),
                 restaurants, nextId, <<"SELECT restaurants">>)
    ELSE Outcome(Response(200, CHOOSE r \in SelectById(id) : TRUE),
                 restaurants, nextId, <<"SELECT restaurants">>)

\* the name of the user a row's attribution column refers to (LEFT JOIN users)
UserName(ref) ==
    IF \E i \in DOMAIN users : IntVal(i) = ref
    THEN Str(users[CHOOSE i \in DOMAIN users : IntVal(i) = ref].name)
    ELSE Null

Joined(r) ==
    r @@ [added_by_user |-> UserName(r.added_by),
          modified_by_user |-> UserName(r.last_modified_by)]

\* a listing ordered by the time of the last change
ListOrdersByUpdate(table) ==
    {q \in [1..Cardinality(table) -> table] :
        /\ \A i, j \in DOMAIN q : i # j => q[i] # q[j]
        /\ \A i, j \in DOMAIN q : i < j => q[i].updated_at >= q[j].updated_at}

\* the orders ORDER BY r.created_at DESC may return the table in: rows of equal
\* created_at come in any order
ListOrders(table) ==
    {q \in [1..Cardinality(table) -> table] :
        /\ \A i, j \in DOMAIN q : i # j => q[i] # q[j]
        /\ \A i, j \in DOMAIN q : i < j => q[i].created_at >= q[j].created_at}

\* app.get('/api/restaurants'), both versions of server.ts
ListHandler(version, order, down) ==
    IF down
    THEN Outcome(Response(500, IF version = "v1" /\ env = "development"
                               THEN [error |-> "Failed to fetch restaurants",
                                     details |-> "connection failure"]
                               ELSE [error |-> "Failed to fetch restaurants"]),
                 restaurants, nextId, <<"SELECT restaurants">>)
    ELSE Outcome(Response(200, [rows |-> [i \in DOMAIN order |-> Joined(order[i])]]),
                 restaurants, nextId, <<"SELECT restaurants">>)

\* a route behind authenticateToken: the verifier runs, and the handler only
\* if the verifier called next(); out is what the handler does with the
\* identity the verifier attached
Protected(route, version, header, input, down, out) ==
    LET auth == AuthenticateToken(header)
        ran == auth.next > 0
    IN  /\ req' = [route |-> route, version |-> version, header |-> header,
                   body |-> input, failAt |-> IF down THEN 1 ELSE 0, at |-> now]
        /\ reqUser' = auth.user
        /\ nextCalls' = auth.next
        /\ res' = [i \in DOMAIN auth.sent |-> Sent("verifier", auth.sent[i])]
                  \o (IF ran THEN <<Sent("handler", out.res)>> ELSE <<>>)
        /\ restaurants' = IF ran THEN out.table ELSE restaurants
        /\ nextId' = IF ran THEN out.nextId ELSE nextId
        /\ stmts' = IF ran THEN out.stmts ELSE <<>>
        /\ createdFrom' = IF ran /\ route = "create" /\ out.res.status = 201
                          THEN createdFrom @@ (out.res.body.id :> input)
                          ELSE createdFrom
        /\ clock' = IF ran /\ out.table # restaurants THEN clock + 1 ELSE clock
        /\ UNCHANGED <<users, now, env, pending, updatedFrom, deleted, boot>>

CreateRouter(header, body, down) ==
    Protected("create", "router", header, body, down,
              CreateRouterHandler(body, AuthenticateToken(header).user, down))

CreateEarlier(header, body, down) ==
    Protected("create", "earlier", header, body, down,
              CreateEarlierHandler(body, AuthenticateToken(header).user, down))

CreateServer(header, body, down) ==
    Protected("create", "server", header, body, down,
              CreateServerHandler(body, AuthenticateToken(header).user, down))

GetById(header, id, down) ==
    Protected("getById", "router", header, id, down, GetByIdHandler(id, down))

List(version, header, down) ==
    \E order \in ListOrders(restaurants) :
        Protected("list", version, header, Undefined, down,
                  ListHandler(version, order, down))

---------------------------------------------------------------------------
(* Update and delete: two statements each, with an await between them *)

\* an UPDATE that keeps the stored value of a field the payload leaves out
UpdatedRowPartial(r, c) ==
    LET Kept(old, new) == IF new = Null THEN old ELSE new
    IN  [r EXCEPT !.name = Kept(r.name, c.name),
                  !.category = Kept(r.category, c.category),
                  !.price_range = Kept(r.price_range, c.price_range),
                  !.vibe = Kept(r.vibe, c.vibe),
                  !.latitude = Kept(r.latitude,
                                    StoredNumeric(c.latitude, LatPrecision, LatScale)),
                  !.longitude = Kept(r.longitude,
                                     StoredNumeric(c.longitude, LonPrecision, LonScale)),
                  !.address = Kept(r.address, c.address),
                  !.seating = Kept(r.seating, c.seating),
                  !.is_licensed = Kept(r.is_licensed, c.is_licensed),
                  !.has_shisha = Kept(r.has_shisha, c.has_shisha),
                  !.google_place_id = Kept(r.google_place_id, c.google_place_id),
                  !.updated_at = clock]

\* an UPDATE that replaces ten of the fields and keeps the stored name
UpdatedRowMixed(r, c) ==
    [r EXCEPT !.category = c.category,
              !.price_range = c.price_range, !.vibe = c.vibe,
              !.latitude = StoredNumeric(c.latitude, LatPrecision, LatScale),
              !.longitude = StoredNumeric(c.longitude, LonPrecision, LonScale),
              !.address = c.address, !.seating = c.seating,
              !.is_licensed = c.is_licensed, !.has_shisha = c.has_shisha,
              !.google_place_id = c.google_place_id, !.updated_at = clock]

\* an UPDATE that also clears the rating
UpdatedRowClearsRating(r, c) ==
    [r EXCEPT !.name = c.name, !.category = c.category,
              !.price_range = c.price_range, !.vibe = c.vibe,
              !.latitude = StoredNumeric(c.latitude, LatPrecision, LatScale),
              !.longitude = StoredNumeric(c.longitude, LonPrecision, LonScale),
              !.address = c.address, !.seating = c.seating,
              !.is_licensed = c.is_licensed, !.has_shisha = c.has_shisha,
              !.google_place_id = c.google_place_id, !.updated_at = clock,
              !.rating = Null]

\* the row an UPDATE leaves: the eleven fields replaced, updated_at refreshed
UpdatedRow(r, c) ==
    [r EXCEPT !.name = c.name, !.category = c.category,
              !.price_range = c.price_range, !.vibe = c.vibe,
              !.latitude = StoredNumeric(c.latitude, LatPrecision, LatScale),
              !.longitude = StoredNumeric(c.longitude, LonPrecision, LonScale),
              !.address = c.address, !.seating = c.seating,
              !.is_licensed = c.is_licensed, !.has_shisha = c.has_shisha,
              !.google_place_id = c.google_place_id, !.updated_at = clock]

StatementResult(result, table) == [result |-> result, table |-> table]

\* UPDATE restaurants SET ... WHERE id = $12 RETURNING *: the rows returned
\* and the table after it; no row matching is no error
UpdateStatement(c, id, down) ==
    IF down
    THEN StatementResult(StorageError("08006", "connection failure", ""), restaurants)
    ELSE IF id.t # "number" \/ BadInput(c)
    THEN StatementResult(StorageError("22P02", "invalid input value", ""), restaurants)
    ELSE IF SelectById(id) = {}
    THEN StatementResult([ok |-> TRUE, rows |-> <<>>], restaurants)
    ELSE LET r == CHOOSE x \in SelectById(id) : TRUE
         IN  IF \/ NumericOverflow(c.latitude, LatPrecision, LatScale)
                \/ NumericOverflow(c.longitude, LonPrecision, LonScale)
             THEN StatementResult(StorageError("22003", "numeric field overflow", ""),
                                  restaurants)
             ELSE IF c.name = Null
             THEN StatementResult(StorageError("23502", "null value in column name", ""),
                                  restaurants)
             ELSE IF UniqueViolation(restaurants \ {r}, c)
             THEN StatementResult(StorageError("23505", "duplicate key value",
                                               "Key (google_place_id) already exists."),
                                  restaurants)
             ELSE StatementResult([ok |-> TRUE, rows |-> <<UpdatedRow(r, c)>>],
                                  (restaurants \ {r}) \cup {UpdatedRow(r, c)})

\* a DELETE that reports success and removes nothing
DeleteStatementKeeps(id, down) ==
    IF down
    THEN StatementResult(StorageError("08006", "connection failure", ""), restaurants)
    ELSE StatementResult([ok |-> TRUE, rows |-> <<>>], restaurants)

\* DELETE FROM restaurants WHERE id = $1
DeleteStatement(id, down) ==
    IF down
    THEN StatementResult(StorageError("08006", "connection failure", ""), restaurants)
    ELSE StatementResult([ok |-> TRUE, rows |-> <<>>], restaurants \ SelectById(id))

\* SELECT id FROM restaurants WHERE id = $1 found nothing, or failed
ExistenceRefused(id, down, msg500) ==
    Outcome(IF down \/ id.t # "number"
            THEN Response(500, [error |-> msg500])
            ELSE Response(404, [error |-> "Restaurant not found"]),
            restaurants, nextId, <<"SELECT restaurants">>)

\* the handler found the row and awaits its second statement
Awaiting(route, header, input) ==
    [route |-> route, header |-> header, input |-> input,
     user |-> AuthenticateToken(header).user, at |-> now]

Without(q, i) == SubSeq(q, 1, i - 1) \o SubSeq(q, i + 1, Len(q))

\* a handler that goes on to its second statement without the existence check
BeginUnchecked(route, header, id, input, down, msg500) ==
    IF AuthenticateToken(header).next > 0 /\ ~down /\ id.t = "number"
    THEN /\ pending' = Append(pending, Awaiting(route, header, input))
         /\ clock' = clock + 1
         /\ UNCHANGED <<users, restaurants, nextId, now, env, req, res, reqUser,
                        nextCalls, stmts, createdFrom, updatedFrom, deleted, boot>>
    ELSE Protected(route, "router", header, input, down,
                   ExistenceRefused(id, down, msg500))

\* the first half of router.put('/:id') and of router.delete('/:id'): the
\* verifier, then the existence check; the handler goes on only past both
Begin(route, header, id, input, down, msg500) ==
    IF AuthenticateToken(header).next > 0 /\ ~down /\ id.t = "number"
       /\ SelectById(id) # {}
    THEN /\ pending' = Append(pending, Awaiting(route, header, input))
         /\ clock' = clock + 1
         /\ UNCHANGED <<users, restaurants, nextId, now, env, req, res, reqUser,
                        nextCalls, stmts, createdFrom, updatedFrom, deleted, boot>>
    ELSE Protected(route, "router", header, input, down,
                   ExistenceRefused(id, down, msg500))

\* history kept with the request: did a row with this id exist on arrival
Existed(id) == id.t = "number" /\ SelectById(id) # {}

\* router.put('/:id'), part_002, up to its existence check
UpdateBegin(header, id, body, down) ==
    Begin("update", header, id,
          [id |-> id, fields |-> body, existed |-> Existed(id), began |-> clock],
          down, "Failed to update restaurant")

\* router.delete('/:id'), part_002, up to its existence check
DeleteBegin(header, id, down) ==
    Begin("delete", header, id, [id |-> id, existed |-> Existed(id)], down,
          "Failed to delete restaurant")

\* the response goes out for the handler that was awaiting at position i
Answer(i, down, second, response) ==
    /\ req' = [route |-> pending[i].route, version |-> "router",
               header |-> pending[i].header, body |-> pending[i].input,
               failAt |-> IF down THEN 2 ELSE 0, at |-> pending[i].at]
    /\ res' = <<Sent("handler", response)>>
    /\ reqUser' = pending[i].user
    /\ nextCalls' = 1
    /\ stmts' = <<"SELECT restaurants", second>>
    /\ pending' = Without(pending, i)

\* router.put('/:id') from its UPDATE on: res.json(result.rows[0]), which is
\* an empty 200 when the row is gone by now; every error is a 500
UpdateFinish(i, down) ==
    LET p == pending[i]
        upd == UpdateStatement(PgParams(p.input.fields), p.input.id, down)
        changed == upd.result.ok /\ Len(upd.result.rows) > 0
    IN  /\ p.route = "update"
        /\ Answer(i, down, "UPDATE restaurants",
                  IF ~upd.result.ok
                  THEN Response(500, [error |-> "Failed to update restaurant"])
                  ELSE IF changed THEN Response(200, upd.result.rows[1])
                  ELSE Response(200, Undefined))
        /\ restaurants' = upd.table
        /\ clock' = IF changed THEN clock + 1 ELSE clock
        /\ updatedFrom' =
              IF changed
              THEN (upd.result.rows[1].id :>
                       [fields |-> p.input.fields,
                        before |-> (CHOOSE x \in SelectById(p.input.id) : TRUE)])
                   @@ updatedFrom
              ELSE updatedFrom
        /\ UNCHANGED <<users, nextId, now, env, createdFrom, deleted, boot>>

\* router.delete('/:id') from its DELETE on: 204 whatever the DELETE removed
DeleteFinish(i, down) ==
    LET p == pending[i]
        del == DeleteStatement(p.input.id, down)
    IN  /\ p.route = "delete"
        /\ Answer(i, down, "DELETE restaurants",
                  IF ~del.result.ok
                  THEN Response(500, [error |-> "Failed to delete restaurant"])
                  ELSE Response(204, Undefined))
        /\ restaurants' = del.table
        /\ deleted' = IF del.result.ok THEN deleted \cup {p.input.id} ELSE deleted
        /\ UNCHANGED <<users, nextId, now, env, createdFrom, clock, updatedFrom, boot>>

---------------------------------------------------------------------------
(* The bulk import (part_005): one upsert per record, outside the HTTP API *)

\* the row ON CONFLICT (google_place_id) DO UPDATE leaves: four fields taken
\* from the record, updated_at refreshed
UpsertedRow(r, c) ==
    [r EXCEPT !.name = c.name, !.category = c.category,
              !.price_range = c.price_range, !.vibe = c.vibe, !.updated_at = clock]

\* the row the earlier version's DO UPDATE leaves (part_009): nine fields
\* taken from the record, updated_at refreshed
UpsertedRowEarlier(r, c) ==
    [r EXCEPT !.name = c.name, !.category = c.category,
              !.price_range = c.price_range, !.vibe = c.vibe,
              !.address = c.address, !.seating = c.seating,
              !.is_licensed = c.is_licensed, !.has_shisha = c.has_shisha,
              !.rating = c.rating, !.updated_at = clock]

\* the row a record is inserted as: no actor, the rating of the place
ImportedRow(c) ==
    [NewRow(c @@ [added_by |-> Null, last_modified_by |-> Null], nextId)
        EXCEPT !.rating = c.rating]

\* an upsert that puts a new row in the place of the one in conflict
UpsertReplaces(c, down) ==
    IF down
    THEN [table |-> restaurants, nextId |-> nextId]
    ELSE [table |-> {x \in restaurants : x.google_place_id # c.google_place_id}
                      \cup {ImportedRow(c)},
          nextId |-> nextId + 1]

\* INSERT INTO restaurants (...) VALUES (...) ON CONFLICT (google_place_id)
\* DO UPDATE SET ...: the sequence is drawn from before the conflict shows
Upsert(c, down) ==
    IF down
    THEN [table |-> restaurants, nextId |-> nextId]
    ELSE IF UniqueViolation(restaurants, c)
    THEN LET r == CHOOSE x \in restaurants : x.google_place_id = c.google_place_id
         IN  [table |-> (restaurants \ {r}) \cup {UpsertedRow(r, c)},
              nextId |-> nextId + 1]
    ELSE [table |-> restaurants \cup {ImportedRow(c)}, nextId |-> nextId + 1]

\* the same statement in the earlier version of the script (part_009)
UpsertEarlier(c, down) ==
    IF down
    THEN [table |-> restaurants, nextId |-> nextId]
    ELSE IF UniqueViolation(restaurants, c)
    THEN LET r == CHOOSE x \in restaurants : x.google_place_id = c.google_place_id
         IN  [table |-> (restaurants \ {r}) \cup {UpsertedRowEarlier(r, c)},
              nextId |-> nextId + 1]
    ELSE [table |-> restaurants \cup {ImportedRow(c)}, nextId |-> nextId + 1]

\* one turn of the loop over the records; an error is logged and the loop
\* goes on. The script is no request: it is recorded as the operation last
\* run, with the storage's time of its statement and no response
Imported(version, c, down, out) ==
    /\ restaurants' = out.table
    /\ nextId' = out.nextId
    /\ clock' = IF out.table # restaurants THEN clock + 1 ELSE clock
    /\ req' = [route |-> "import", version |-> version, header |-> NoHeader,
               body |-> [record |-> c, stamp |-> clock],
               failAt |-> IF down THEN 1 ELSE 0, at |-> now]
    /\ res' = <<>>
    /\ reqUser' = Undefined
    /\ nextCalls' = 0
    /\ stmts' = <<"INSERT restaurants ON CONFLICT">>
    /\ UNCHANGED <<users, now, env, createdFrom, pending, updatedFrom, deleted, boot>>

ImportRecord(c, down) == Imported("part_005", c, down, Upsert(c, down))

ImportRecordEarlier(c, down) == Imported("part_009", c, down, UpsertEarlier(c, down))

\* records of the CSV file, matched with a place
ImportRecords ==
    {[name |-> Str("Zuma Dubai"), category |-> Str("Bar"), price_range |-> Null,
      vibe |-> Arr(<<"Chic">>), latitude |-> Num(Dec(25, 204849300)),
      longitude |-> Num(Dec(55, 270782800)), address |-> Str("Gate Village 06"),
      seating |-> Str("Both"), is_licensed |-> Bool(TRUE), has_shisha |-> Bool(FALSE),
      google_place_id |-> Str(g), rating |-> Num(Dec(4, 500000000))] :
        g \in {"place-1", "place-3"}}

---------------------------------------------------------------------------
(* The requests tried *)

\* the token a login of user i at time t returns
IssuedToken(i, t) == JwtSign(Claims(users[i]), JWT_SECRET, t)

Bearer(tok) == Header(<<Word("Bearer"), Sp, Tok(tok)>>)

\* a client that logged in just now, or sends no credential
FreshHeaders == {NoHeader} \cup {Bearer(IssuedToken(i, now)) : i \in DOMAIN users}

\* tokens a request may carry: issued at the start or just now, signed with
\* another secret, altered after signing, or no token at all
TokensTried ==
    {IssuedToken(i, t) : i \in DOMAIN users, t \in {0, now}}
    \cup {JwtSign(Claims(users[1]), OtherSecret, now)}
    \cup {[IssuedToken(2, now) EXCEPT !.payload.role = "admin", !.payload.id = 1]}
    \cup {[kind |-> "garbage"]}

\* header values: no header, an empty one, a scheme word alone, every token
\* tried behind "Bearer ", and a good token behind another scheme word, with no
\* scheme word, and behind two spaces
HeadersTried ==
    {NoHeader, Header(<<>>), Header(<<Word("Bearer")>>), Header(<<Word("Bearer"), Sp>>)}
    \cup {Bearer(k) : k \in TokensTried}
    \cup {Header(<<Word("Basic"), Sp, Tok(IssuedToken(2, now))>>),
          Header(<<Tok(IssuedToken(2, now))>>),
          Header(<<Word("Bearer"), Sp, Sp, Tok(IssuedToken(2, now))>>)}

BasePayload ==
    [name |-> Str("Zuma"), category |-> Str("Restaurant"), price_range |-> Str("$$$"),
     vibe |-> Arr(<<"Lively">>), latitude |-> Num(Dec(25, 204849300)),
     longitude |-> Num(Dec(55, 270782800)), address |-> Str("DIFC, Dubai"),
     seating |-> Str("Indoor"), is_licensed |-> Bool(TRUE), has_shisha |-> Bool(FALSE),
     google_place_id |-> Str("place-1")]

EmptyPayload == [k \in PayloadFields |-> Undefined]

\* payloads that name every required field
CompletePayloads ==
    {BasePayload,
     [BasePayload EXCEPT !.google_place_id = Undefined, !.is_licensed = Undefined,
                         !.price_range = Undefined],
     [BasePayload EXCEPT !.google_place_id = Str("place-2"),
                         !.latitude = Num(Dec(25, 123456789)),
                         !.longitude = Num(Dec(55, 999999995))],
     [BasePayload EXCEPT !.google_place_id = Undefined, !.category = Str("Pub")],
     [BasePayload EXCEPT !.google_place_id = Undefined,
                         !.latitude = Num(Dec(99, 999999996))]}

\* payloads with required fields left out, or present and falsy
IncompletePayloads ==
    {EmptyPayload,
     [BasePayload EXCEPT !.name = Undefined],
     [BasePayload EXCEPT !.category = Undefined, !.google_place_id = Undefined],
     [BasePayload EXCEPT !.seating = Null, !.latitude = Num(Dec(0, 0)),
                         !.google_place_id = Undefined],
     [BasePayload EXCEPT !.address = Str(""), !.longitude = Undefined]}

Payloads == CompletePayloads \cup IncompletePayloads

IdsTried == {IntVal(i) : i \in 1..MaxId} \cup {Str("abc")}

RouterCreate ==
    /\ nextId <= MaxId
    /\ \E h \in FreshHeaders, b \in Payloads, down \in BOOLEAN : CreateRouter(h, b, down)
EarlierCreate ==
    /\ nextId <= MaxId
    /\ \E h \in FreshHeaders, b \in Payloads, down \in BOOLEAN : CreateEarlier(h, b, down)
ServerCreate ==
    /\ nextId <= MaxId
    /\ \E h \in FreshHeaders, b \in Payloads, down \in BOOLEAN : CreateServer(h, b, down)
Read == \E h \in FreshHeaders, id \in IdsTried, down \in BOOLEAN : GetById(h, id, down)
Listing == \E v \in {"v1", "v2"}, h \in FreshHeaders, down \in BOOLEAN : List(v, h, down)

Next == RouterCreate \/ EarlierCreate \/ ServerCreate \/ Read \/ Listing

\* the restaurant routes, every version of create, clients with a fresh token
Spec == Init /\ [][Next]_vars

\* one payload without a place id, every shape of header, and the clock
AuthPayload == [BasePayload EXCEPT !.google_place_id = Undefined]

AuthCreate ==
    /\ nextId <= AuthMaxId
    /\ \E h \in HeadersTried :
          \/ CreateRouter(h, AuthPayload, FALSE)
          \/ CreateServer(h, AuthPayload, FALSE)
AuthRead == \E h \in HeadersTried, id \in {IntVal(1), Str("abc")} : GetById(h, id, FALSE)
AuthListing == \E h \in HeadersTried, down \in BOOLEAN : List("v1", h, down)

NextAuth == AuthCreate \/ AuthRead \/ AuthListing \/ Tick

SpecAuth == Init /\ [][NextAuth]_vars

\* create and read back, by one client
RoundTripHeader == Bearer(IssuedToken(1, now))

RoundTripCreate ==
    /\ nextId <= MaxId
    /\ \E b \in CompletePayloads, down \in BOOLEAN :
          \/ CreateRouter(RoundTripHeader, b, down)
          \/ CreateEarlier(RoundTripHeader, b, down)
          \/ CreateServer(RoundTripHeader, b, down)
RoundTripRead == \E id \in IdsTried : GetById(RoundTripHeader, id, FALSE)

NextRoundTrip == RoundTripCreate \/ RoundTripRead

SpecRoundTrip == Init /\ [][NextRoundTrip]_vars

\* one client that creates, updates, deletes and reads, handlers interleaving
VenueHeader == Bearer(IssuedToken(2, now))

RoundedPayload ==
    [BasePayload EXCEPT !.google_place_id = Str("place-2"),
                        !.latitude = Num(Dec(25, 123456789)),
                        !.longitude = Num(Dec(55, 999999995))]

\* a payload that leaves the optional fields out
SparsePayload ==
    [BasePayload EXCEPT !.google_place_id = Undefined, !.is_licensed = Undefined,
                        !.price_range = Undefined, !.name = Str("Nobu")]

\* bodies of PUT: a complete one, one that leaves optional fields out, one
\* without a name
UpdateBodies ==
    {RoundedPayload, SparsePayload,
     [BasePayload EXCEPT !.name = Undefined, !.google_place_id = Undefined]}

UpdateCreate ==
    /\ nextId <= AuthMaxId
    /\ CreateRouter(VenueHeader, BasePayload, FALSE)
UpdateIds == {IntVal(i) : i \in 1..(AuthMaxId + 1)} \cup {Str("abc")}
UpdateStart ==
    /\ clock <= MaxStamp
    /\ \E id \in UpdateIds, b \in UpdateBodies, down \in BOOLEAN :
          UpdateBegin(VenueHeader, id, b, down)
UpdateEnd == \E i \in DOMAIN pending, down \in BOOLEAN : UpdateFinish(i, down)
UpdateDeleteStart ==
    /\ clock <= MaxStamp
    /\ \E id \in UpdateIds : DeleteBegin(VenueHeader, id, FALSE)
UpdateDeleteEnd == \E i \in DOMAIN pending : DeleteFinish(i, FALSE)
UpdateRead == \E id \in UpdateIds : GetById(VenueHeader, id, FALSE)

NextUpdate ==
    \/ UpdateCreate
    \/ UpdateStart \/ UpdateEnd
    \/ UpdateDeleteStart \/ UpdateDeleteEnd
    \/ UpdateRead

SpecUpdate == Init /\ [][NextUpdate]_vars

\* create, delete, read and list by one client, deletes interleaving
DeleteCreate ==
    /\ nextId <= MaxId
    /\ \E b \in {BasePayload, RoundedPayload} : CreateRouter(VenueHeader, b, FALSE)
DeleteStart ==
    /\ clock <= MaxStamp
    /\ \E id \in IdsTried, down \in BOOLEAN : DeleteBegin(VenueHeader, id, down)
DeleteEnd == \E i \in DOMAIN pending, down \in BOOLEAN : DeleteFinish(i, down)
DeleteRead == \E id \in IdsTried, down \in BOOLEAN : GetById(VenueHeader, id, down)
DeleteListing == List("v1", VenueHeader, FALSE)

NextDelete == DeleteCreate \/ DeleteStart \/ DeleteEnd \/ DeleteRead \/ DeleteListing

SpecDelete == Init /\ [][NextDelete]_vars

\* creates, updates and deletes by one client, and listings of both versions
OrderCreate ==
    /\ nextId <= MaxId
    /\ \E b \in {BasePayload, RoundedPayload}, down \in BOOLEAN :
          CreateRouter(VenueHeader, b, down)
OrderUpdateStart ==
    /\ clock <= MaxStamp
    /\ \E id \in IdsTried : UpdateBegin(VenueHeader, id, SparsePayload, FALSE)
OrderUpdateEnd == \E i \in DOMAIN pending : UpdateFinish(i, FALSE)
OrderDeleteStart ==
    /\ clock <= MaxStamp
    /\ \E id \in IdsTried : DeleteBegin(VenueHeader, id, FALSE)
OrderDeleteEnd == \E i \in DOMAIN pending : DeleteFinish(i, FALSE)
OrderListing ==
    \E v \in {"v1", "v2"}, h \in {NoHeader, VenueHeader}, down \in BOOLEAN : List(v, h, down)

NextOrder ==
    \/ OrderCreate
    \/ OrderUpdateStart \/ OrderUpdateEnd
    \/ OrderDeleteStart \/ OrderDeleteEnd
    \/ OrderListing

SpecOrder == Init /\ [][NextOrder]_vars

\* every way a row gets into, changes in, or leaves the table
UniqueCreate ==
    /\ nextId <= MaxId
    /\ \E b \in {BasePayload, SparsePayload} :
          \/ CreateRouter(VenueHeader, b, FALSE)
          \/ CreateServer(VenueHeader, b, FALSE)
UniqueIds == {IntVal(i) : i \in 1..MaxId}
UniqueUpdateStart ==
    /\ clock <= MaxStamp
    /\ \E id \in UniqueIds : UpdateBegin(VenueHeader, id, BasePayload, FALSE)
UniqueUpdateEnd == \E i \in DOMAIN pending : UpdateFinish(i, FALSE)
UniqueDeleteStart ==
    /\ clock <= MaxStamp
    /\ \E id \in UniqueIds : DeleteBegin(VenueHeader, id, FALSE)
UniqueDeleteEnd == \E i \in DOMAIN pending : DeleteFinish(i, FALSE)
UniqueImport ==
    /\ nextId <= MaxId
    /\ \E c \in ImportRecords : ImportRecord(c, FALSE)

NextUnique ==
    \/ UniqueCreate
    \/ UniqueUpdateStart \/ UniqueUpdateEnd
    \/ UniqueDeleteStart \/ UniqueDeleteEnd
    \/ UniqueImport

SpecUnique == Init /\ [][NextUnique]_vars

\* logins that succeed and that fail, and every venue operation, by the
\* second user
UsersBodies ==
    {[email |-> Str(UserEmail), password |-> pw] :
        pw \in {Str(UserPassword), Str("wrong"), Undefined}}
    \cup {[email |-> Str(AdminEmail), password |-> Str(AdminPassword)]}
UsersLogin ==
    \E v \in {"v1", "v2"}, body \in UsersBodies, failAt \in 0..2 : Login(v, body, failAt)
UsersCreate ==
    /\ nextId <= AuthMaxId
    /\ CreateRouter(VenueHeader, BasePayload, FALSE)
UsersUpdateStart ==
    /\ clock <= MaxStamp
    /\ UpdateBegin(VenueHeader, IntVal(1), SparsePayload, FALSE)
UsersUpdateEnd == \E i \in DOMAIN pending : UpdateFinish(i, FALSE)
UsersDeleteStart ==
    /\ clock <= MaxStamp
    /\ DeleteBegin(VenueHeader, IntVal(1), FALSE)
UsersDeleteEnd == \E i \in DOMAIN pending : DeleteFinish(i, FALSE)
UsersRead == GetById(VenueHeader, IntVal(1), FALSE)
UsersListing == List("v1", VenueHeader, FALSE)

NextUsers ==
    \/ UsersLogin
    \/ UsersCreate
    \/ UsersUpdateStart \/ UsersUpdateEnd
    \/ UsersDeleteStart \/ UsersDeleteEnd
    \/ UsersRead \/ UsersListing

SpecUsers == Init /\ [][NextUsers]_vars

\* venues created through the API, and both versions of the import run over
\* the same records again and again
ImportCreate ==
    /\ nextId <= MaxId
    /\ \E b \in {BasePayload, RoundedPayload} : CreateRouter(VenueHeader, b, FALSE)
ImportRun ==
    /\ clock <= MaxStamp
    /\ \E c \in ImportRecords, down \in BOOLEAN : ImportRecord(c, down)
ImportRunEarlier ==
    /\ clock <= MaxStamp
    /\ \E c \in ImportRecords, down \in BOOLEAN : ImportRecordEarlier(c, down)
ImportRead == \E id \in IdsTried : GetById(VenueHeader, id, FALSE)

NextImport == ImportCreate \/ ImportRun \/ ImportRunEarlier \/ ImportRead

SpecImport == Init /\ [][NextImport]_vars

\* the keys of a JSON body in the order the client wrote them, and reversed
KeyOrders ==
    {<<"name", "category", "price_range", "vibe", "latitude", "longitude", "address",
       "seating", "is_licensed", "has_shisha", "google_place_id">>,
     <<"google_place_id", "has_shisha", "is_licensed", "seating", "address", "longitude",
       "latitude", "vibe", "price_range", "category", "name">>}

\* the body as it arrives: the entries of the payload in that order, a field
\* that is undefined not among them
RECURSIVE Entries(_, _)
Entries(payload, order) ==
    IF order = <<>> THEN <<>>
    ELSE IF payload[Head(order)] = Undefined THEN Entries(payload, Tail(order))
    ELSE <<[k |-> Head(order), v |-> payload[Head(order)]]>>
         \o Entries(payload, Tail(order))

\* const { name, category, ... } = req.body: each field looked up by its key
Destructure(raw) ==
    [f \in PayloadFields |->
        IF \E i \in DOMAIN raw : raw[i].k = f
        THEN raw[CHOOSE i \in DOMAIN raw : raw[i].k = f].v
        ELSE Undefined]

\* values a client may send that JavaScript takes as false, and no value
FalsyValues == {Undefined, Null, Str(""), IntVal(0), Bool(FALSE)}

\* the complete payload, and it with one or two required fields falsy
FalsyPayloads ==
    {BasePayload}
    \cup {[BasePayload EXCEPT ![RequiredFields[i]] = v] :
             i \in DOMAIN RequiredFields, v \in FalsyValues}
    \cup {[BasePayload EXCEPT !.seating = v, !.name = w] :
             v \in {Bool(FALSE), Undefined}, w \in {Str(""), Null}}

\* router.post('/') with the body as sent
CreateRouterRaw(header, raw, down) ==
    Protected("create", "router", header, raw, down,
              CreateRouterHandler(Destructure(raw), AuthenticateToken(header).user, down))

FalsyCreate ==
    /\ nextId <= MaxId
    /\ \E b \in FalsyPayloads, order \in KeyOrders :
          CreateRouterRaw(VenueHeader, Entries(b, order), FALSE)

FalsyRead == \E id \in IdsTried : GetById(VenueHeader, id, FALSE)

NextFalsy == FalsyCreate \/ FalsyRead

SpecFalsy == Init /\ [][NextFalsy]_vars

---------------------------------------------------------------------------
(* Token verification on the protected routes *)

ProtectedRoutes == {"create", "getById", "list"}

\* the response body carries venue data: a row, or the rows of a listing
CarriesData(body) == "rows" \in DOMAIN body \/ "id" \in DOMAIN body

\* the header has the form <scheme word> <space> <token>
CarriesToken(header) ==
    /\ header.present
    /\ Len(header.sym) = 3
    /\ header.sym[1].k = "word"
    /\ header.sym[2] = Sp
    /\ header.sym[3].k = "token"

CarriedToken(header) == header.sym[3].tok

Malformed(k) == k.kind # "jwt"
SignedElsewhere(k) == k.kind = "jwt" /\ k.sig.key # JWT_SECRET
Expired(k, t) == k.kind = "jwt" /\ t - k.payload.iat >= TokenTTL
WellSigned(k) == k.kind = "jwt" /\ k.sig = Hmac(JWT_SECRET, k.payload)

\* C1: a request to a protected route without an Authorization header is
\* answered 401 by the verifier alone: the route handler is never invoked, no
\* statement reaches the storage and the answer carries no venue data
C1_NoHeaderIs401 ==
    (req.route \in ProtectedRoutes /\ ~req.header.present) =>
        /\ res = <<Sent("verifier", Response(401, [error |-> "Authentication required"]))>>
        /\ nextCalls = 0
        /\ stmts = <<>>
        /\ \A i \in DOMAIN res : ~CarriesData(res[i].body)

\* a listing asked without a header while the table holds venues
C1_Witness ==
    /\ req.route = "list"
    /\ ~req.header.present
    /\ restaurants # {}
    /\ Len(res) = 1 /\ res[1].status = 401

\* C2: a protected request whose token is malformed, signed with another
\* secret, or issued 24 hours or more before the request is answered 403 by
\* the verifier; no identity is attached and the handler is not invoked
C2_BadTokenIs403 ==
    (/\ req.route \in ProtectedRoutes
     /\ CarriesToken(req.header)
     /\ \/ Malformed(CarriedToken(req.header))
        \/ SignedElsewhere(CarriedToken(req.header))
        \/ Expired(CarriedToken(req.header), req.at)) =>
        /\ res = <<Sent("verifier", Response(403, [error |-> "Invalid token"]))>>
        /\ reqUser = Undefined
        /\ nextCalls = 0
        /\ stmts = <<>>

\* a read with a token of this service that has run out, venues in the table
C2_Witness ==
    /\ req.route = "getById"
    /\ CarriesToken(req.header)
    /\ WellSigned(CarriedToken(req.header))
    /\ Expired(CarriedToken(req.header), req.at)
    /\ restaurants # {}
    /\ Len(res) = 1 /\ res[1].status = 403

\* C3: a protected request with a well-signed token younger than 24 hours
\* reaches the handler exactly once, with an identity whose id, email and role
\* are the claims put into the token when it was issued to a user, and the
\* verifier sends no response of its own
C3_ValidTokenPasses ==
    (/\ req.route \in ProtectedRoutes
     /\ CarriesToken(req.header)
     /\ WellSigned(CarriedToken(req.header))
     /\ ~Expired(CarriedToken(req.header), req.at)) =>
        LET claims == CarriedToken(req.header).payload
        IN  /\ reqUser # Undefined
            /\ reqUser.id = claims.id
            /\ reqUser.email = claims.email
            /\ reqUser.role = claims.role
            /\ claims.id \in DOMAIN users
            /\ Claims(reqUser) = Claims(users[claims.id])
            /\ nextCalls = 1
            /\ Len(res) = 1
            /\ \A i \in DOMAIN res : res[i].by = "handler"

\* the second user creates a venue with a token issued before the request
C3_Witness ==
    /\ req.route = "create"
    /\ CarriesToken(req.header)
    /\ WellSigned(CarriedToken(req.header))
    /\ CarriedToken(req.header).payload.iat < req.at
    /\ reqUser # Undefined
    /\ reqUser.id = 2
    /\ Len(res) = 1 /\ res[1].status = 201

---------------------------------------------------------------------------
(* Login *)

PresentString(x) == x.t = "string" /\ x.v # ""

\* the email and password of a seeded account
ValidCredentials(body) ==
    \/ body = [email |-> Str(AdminEmail), password |-> Str(AdminPassword)]
    \/ body = [email |-> Str(UserEmail), password |-> Str(UserPassword)]

UserByEmail(email) == CHOOSE i \in DOMAIN users : Str(users[i].email) = email

\* C4: a login with the email and password of an account, the storage
\* answering, returns 200 with a token whose claims are that account's id,
\* email and role; every 200 is such a login, and neither the token nor the
\* user object of the response has the password hash
C4_LoginClaims ==
    (req.route = "login") =>
        /\ (ValidCredentials(req.body) /\ req.failAt = 0) =>
               (Len(res) = 1 /\ res[1].status = 200)
        /\ (Len(res) = 1 /\ res[1].status = 200) =>
               /\ ValidCredentials(req.body)
               /\ LET body == res[1].body
                      u == users[UserByEmail(req.body.email)]
                      decoded == JwtVerify(body.token, JWT_SECRET, req.at)
                  IN  /\ DOMAIN body = {"token", "user"}
                      /\ ~decoded.err
                      /\ Claims(decoded.user) = [id |-> u.id, email |-> u.email,
                                                 role |-> u.role]
                      /\ DOMAIN decoded.user = {"id", "email", "role", "iat", "exp"}
                      /\ DOMAIN body.user = {"id", "email", "role", "name"}
                      /\ body.user.id = u.id /\ body.user.email = u.email

\* the second user logs in some time after the start
C4_Witness ==
    /\ req.route = "login"
    /\ req.body = [email |-> Str(UserEmail), password |-> Str(UserPassword)]
    /\ req.at > 0
    /\ Len(res) = 1 /\ res[1].status = 200
    /\ res[1].body.user.id = 2

\* C5: a login with a non-empty email and password that are not those of an
\* account, the storage answering, gets 401 {error: 'Invalid credentials'},
\* and the same request with any other email that is not that password's
\* account gets the very same response: an unknown email and a wrong password
\* cannot be told apart
C5_RejectsAlike ==
    (/\ req.route = "login"
     /\ req.failAt = 0
     /\ PresentString(req.body.email)
     /\ PresentString(req.body.password)
     /\ ~ValidCredentials(req.body)) =>
        /\ res = <<Sent("handler", Response(401, [error |-> "Invalid credentials"]))>>
        /\ \A e \in LoginEmails :
              LET other == [email |-> e, password |-> req.body.password]
              IN  (PresentString(e) /\ ~ValidCredentials(other)) =>
                      Sent("handler", LoginHandler(req.version, other, 0).res) = res[1]

\* an email no account has, rejected
C5_Witness ==
    /\ req.route = "login"
    /\ req.failAt = 0
    /\ req.body.email = Str("nobody@x.com")
    /\ PresentString(req.body.password)
    /\ Len(res) = 1 /\ res[1].status = 401

\* C6: a login without an email or without a password is answered 400 before
\* any statement reaches the storage
C6_MissingIs400 ==
    (/\ req.route = "login"
     /\ (req.body.email = Undefined \/ req.body.password = Undefined)) =>
        /\ Len(res) = 1
        /\ res[1].status = 400
        /\ stmts = <<>>

---------------------------------------------------------------------------
(* Creating a venue *)

\* the required fields a payload leaves out
Absent(body) == {k \in {RequiredFields[i] : i \in DOMAIN RequiredFields} :
                    body[k] = Undefined}

\* every required field is left out or has a value that is not falsy
PlainlyIncomplete(body) ==
    /\ body # Undefined
    /\ Absent(body) # {}
    /\ \A i \in DOMAIN RequiredFields :
          body[RequiredFields[i]] = Undefined \/ ~Falsy(body[RequiredFields[i]])

\* C7: a create whose payload leaves out required fields is answered 400
\* with exactly the names of the fields left out, and inserts nothing
C7_MissingListed ==
    (/\ req.route = "create"
     /\ nextCalls = 1
     /\ PlainlyIncomplete(req.body)) =>
        /\ Len(res) = 1
        /\ res[1].status = 400
        /\ "missingFields" \in DOMAIN res[1].body
        /\ {res[1].body.missingFields[i] : i \in DOMAIN res[1].body.missingFields}
               = Absent(req.body)
        /\ Len(res[1].body.missingFields) = Cardinality(Absent(req.body))
        /\ stmts = <<>>

\* a payload the table would take, were its place id new
Storable(body) ==
    /\ body # Undefined
    /\ MissingFields(body) = <<>>
    /\ ~BadInput(PgParams(body))
    /\ ~NumericOverflow(PgParam(body.latitude), LatPrecision, LatScale)
    /\ ~NumericOverflow(PgParam(body.longitude), LonPrecision, LonScale)

\* C8: a create whose google_place_id a stored venue already has is answered
\* 409 and leaves the table as it was
C8_DuplicateIs409 ==
    [][(/\ <<req, res, restaurants, nextId>>' # <<req, res, restaurants, nextId>>
        /\ req'.route = "create"
        /\ nextCalls' = 1
        /\ req'.failAt = 0
        /\ Storable(req'.body)
        /\ req'.body.google_place_id # Undefined
        /\ \E r \in restaurants : r.google_place_id = req'.body.google_place_id) =>
           /\ Len(res') = 1
           /\ res'[1].status = 409
           /\ restaurants' = restaurants]_vars

\* C9: a create that succeeds stores one row whose added_by and
\* last_modified_by are both the id of the authenticated actor
C9_BothAttributed ==
    (/\ req.route = "create"
     /\ Len(res) = 1
     /\ res[1].status = 201) =>
        /\ res[1].body \in restaurants
        /\ res[1].body.added_by = IntVal(reqUser.id)
        /\ res[1].body.last_modified_by = IntVal(reqUser.id)

---------------------------------------------------------------------------
(* Reading back what was created *)

\* the venue read back was created through the API in this run
ReadBack ==
    /\ req.route = "getById"
    /\ Len(res) = 1
    /\ res[1].status = 200
    /\ res[1].body.id \in DOMAIN createdFrom

\* stored is sent rounded to LatScale decimal places, halves upwards
RoundedFrom(stored, sent) ==
    IF PgParam(sent) = Null THEN stored = Null
    ELSE /\ sent.t = "number"
         /\ stored.t = "number"
         /\ stored.v.f % Pow10(InputScale - LatScale) = 0
         /\ (stored.v.i - sent.v.i) * Pow10(InputScale) + (stored.v.f - sent.v.f)
                \in -4..5

\* the statement as the specification has it: every field supplied comes back
\* as supplied
C10_Original ==
    ReadBack =>
        \A f \in PayloadFields :
            res[1].body[f] = PgParam(createdFrom[res[1].body.id][f])

\* C10: a venue created and then read by its id comes back with every field
\* of the payload as supplied (a field left out as null), except that latitude
\* and longitude come back rounded to 8 decimal places
C10_RoundTrip ==
    ReadBack =>
        LET row == res[1].body
            sent == createdFrom[res[1].body.id]
        IN  /\ \A f \in PayloadFields \ {"latitude", "longitude"} :
                  row[f] = PgParam(sent[f])
            /\ RoundedFrom(row.latitude, sent.latitude)
            /\ RoundedFrom(row.longitude, sent.longitude)

\* a venue read back whose latitude was rounded and whose longitude was
\* carried into the next degree
C10_Witness ==
    /\ ReadBack
    /\ res[1].body.latitude # createdFrom[res[1].body.id].latitude
    /\ res[1].body.longitude.v.i # createdFrom[res[1].body.id].longitude.v.i

---------------------------------------------------------------------------
(* Updating a venue *)

\* this step sent the response of a request to the route: at once, or when the
\* handler's second statement came back
Answers(route) ==
    /\ req'.route = route
    /\ Len(pending') <= Len(pending)

\* the venue read was last changed by an update of this run
ReadUpdated ==
    /\ req.route = "getById"
    /\ Len(res) = 1
    /\ res[1].status = 200
    /\ res[1].body.id \in DOMAIN updatedFrom

\* the statement as the specification has it: every mutable field comes back
\* exactly as the update gave it
C11_Original ==
    ReadUpdated =>
        /\ \A f \in PayloadFields :
              res[1].body[f] = PgParam(updatedFrom[res[1].body.id].fields[f])
        /\ res[1].body.updated_at > updatedFrom[res[1].body.id].before.updated_at

\* C11: after an update changed a venue, reading it by id returns every
\* mutable field as the update gave it, a field the update left out as null,
\* latitude and longitude rounded to 8 decimal places, and an updated_at
\* later than the one the venue had before the update
C11_UpdateReadBack ==
    ReadUpdated =>
        LET row == res[1].body
            given == updatedFrom[res[1].body.id].fields
        IN  /\ \A f \in PayloadFields \ {"latitude", "longitude"} :
                  row[f] = PgParam(given[f])
            /\ RoundedFrom(row.latitude, given.latitude)
            /\ RoundedFrom(row.longitude, given.longitude)
            /\ row.updated_at > updatedFrom[res[1].body.id].before.updated_at

\* a venue read back after an update that left optional fields out, which the
\* venue had before
C11_Witness ==
    /\ ReadUpdated
    /\ updatedFrom[res[1].body.id].fields.price_range = Undefined
    /\ updatedFrom[res[1].body.id].before.price_range # Null
    /\ res[1].body.price_range = Null

\* a venue read back after an update whose latitude has a ninth decimal
C11_WitnessRounded ==
    /\ ReadUpdated
    /\ res[1].body.latitude # updatedFrom[res[1].body.id].fields.latitude

\* C12: an update of a numeric id that names no venue when the request
\* arrives, the storage answering, is answered 404, issues no UPDATE and
\* leaves the venue table as it was
C12_UpdateAbsentIs404 ==
    [][(/\ Answers("update")
        /\ nextCalls' = 1
        /\ req'.failAt = 0
        /\ req'.body.id.t = "number"
        /\ ~req'.body.existed) =>
           /\ res' = <<Sent("handler", Response(404, [error |-> "Restaurant not found"]))>>
           /\ \A i \in DOMAIN stmts' : stmts'[i] # "UPDATE restaurants"
           /\ restaurants' = restaurants]_vars

\* an update of an id never handed out, while the table holds a venue
C12_Witness ==
    /\ req.route = "update"
    /\ nextCalls = 1
    /\ req.body.id.t = "number"
    /\ ~req.body.existed
    /\ restaurants # {}
    /\ Len(res) = 1 /\ res[1].status = 404

---------------------------------------------------------------------------
(* Deleting and reading a venue *)

\* this step is a handler that answers within the step it arrives in
AnswersAtOnce(route) ==
    /\ req'.route = route
    /\ pending' = pending

\* C13: once a delete of an id was answered 204, no row with that id is in
\* the table again: every later read of the id that reaches the storage is
\* answered 404, no later listing has the venue, and the delete left every
\* other venue as it was
C13_DeletedStaysGone ==
    [][/\ \A id \in deleted' : \A r \in restaurants' : IntVal(r.id) # id
       /\ (/\ AnswersAtOnce("getById")
           /\ nextCalls' = 1
           /\ req'.failAt = 0
           /\ req'.body \in deleted) =>
              res' = <<Sent("handler", Response(404, [error |-> "Restaurant not found"]))>>
       /\ (/\ AnswersAtOnce("list")
           /\ Len(res') = 1
           /\ res'[1].status = 200) =>
              \A k \in DOMAIN res'[1].body.rows :
                  IntVal(res'[1].body.rows[k].id) \notin deleted
       /\ (/\ Answers("delete")
           /\ Len(res') = 1
           /\ res'[1].status = 204) =>
              /\ restaurants' \subseteq restaurants
              /\ \A r \in restaurants :
                    IntVal(r.id) # req'.body.id => r \in restaurants']_vars

\* a venue read after its delete, another venue still stored
C13_Witness ==
    /\ req.route = "getById"
    /\ req.body \in deleted
    /\ restaurants # {}
    /\ Len(res) = 1 /\ res[1].status = 404

\* C14: a delete is answered 404 exactly when no venue has the id as the
\* request arrives, 204 only when it removed a row, and a 404 leaves the
\* table as it was
C14_DeleteOutcome ==
    [][(/\ Answers("delete")
        /\ nextCalls' = 1
        /\ req'.failAt = 0
        /\ req'.body.id.t = "number"
        /\ Len(res') = 1) =>
           /\ (res'[1].status = 404) <=> ~req'.body.existed
           /\ (res'[1].status = 204) => restaurants' # restaurants
           /\ (res'[1].status = 404) => restaurants' = restaurants]_vars

\* C16: a read by a numeric id that reaches the storage returns the one venue
\* with that id, or 404 when there is none, and no read changes the table
C16_ReadOneOr404 ==
    [][AnswersAtOnce("getById") =>
          /\ restaurants' = restaurants
          /\ nextId' = nextId
          /\ (nextCalls' = 1 /\ req'.failAt = 0 /\ req'.body.t = "number") =>
                IF \E r \in restaurants : IntVal(r.id) = req'.body
                THEN /\ Len(res') = 1
                     /\ res'[1].status = 200
                     /\ res'[1].body \in restaurants
                     /\ IntVal(res'[1].body.id) = req'.body
                ELSE res' = <<Sent("handler",
                                   Response(404, [error |-> "Restaurant not found"]))>>]_vars

\* one of two stored venues read by its id
C16_Witness ==
    /\ req.route = "getById"
    /\ Cardinality(restaurants) = 2
    /\ Len(res) = 1 /\ res[1].status = 200
    /\ res[1].body \in restaurants

---------------------------------------------------------------------------
(* Listing the venues *)

\* a listing that passed the verifier and reached the storage
Listed ==
    /\ req.route = "list"
    /\ nextCalls = 1
    /\ req.failAt = 0

\* C15: a listing returns every stored venue exactly once, in descending
\* order of created_at; whatever was created, updated and deleted before, the
\* venue created last among the stored ones comes first
C15_ListNewestFirst ==
    Listed =>
        /\ Len(res) = 1
        /\ res[1].status = 200
        /\ LET rows == res[1].body.rows
           IN  /\ Len(rows) = Cardinality(restaurants)
               /\ \A r \in restaurants : \E k \in DOMAIN rows : rows[k].id = r.id
               /\ \A k \in DOMAIN rows :
                     \E r \in restaurants : \A f \in DOMAIN r : rows[k][f] = r[f]
               /\ \A j, k \in DOMAIN rows :
                     j < k => rows[j].created_at >= rows[k].created_at
               /\ \A r \in restaurants : rows[1].id >= r.id

\* two venues listed, the older one changed after the newer one was created
C15_Witness ==
    /\ Listed
    /\ Len(res) = 1 /\ res[1].status = 200
    /\ Len(res[1].body.rows) = 2
    /\ res[1].body.rows[1].id > res[1].body.rows[2].id
    /\ res[1].body.rows[1].updated_at < res[1].body.rows[2].updated_at

---------------------------------------------------------------------------
(* The keys of the venue table *)

\* C17: whatever creates, updates, deletes and bulk imports ran, no two
\* stored venues have the same id, and no two have the same google_place_id
\* unless it is null
C17_KeysUnique ==
    \A r1, r2 \in restaurants :
        r1 # r2 =>
            /\ r1.id # r2.id
            /\ r1.google_place_id # Null => r1.google_place_id # r2.google_place_id

\* two venues with place ids, and an update that tried to give one of them
\* the place id of the other
C17_Witness ==
    /\ Cardinality(restaurants) = 2
    /\ \A r \in restaurants : r.google_place_id # Null
    /\ req.route = "update"
    /\ req.body.existed
    /\ \E r \in restaurants :
          /\ IntVal(r.id) # req.body.id
          /\ r.google_place_id = req.body.fields.google_place_id
    /\ Len(res) = 1 /\ res[1].status = 500

\* a response body with a field of internal error detail
CarriesDetail(body) ==
    /\ DOMAIN body # {"t"}
    /\ ("detail" \in DOMAIN body \/ "details" \in DOMAIN body)

\* C18: every request gets exactly one response, and under NODE_ENV =
\* production no response of any status has a detail or details field
C18_NoDetailInProduction ==
    (req.route # "none") =>
        /\ Len(res) = 1
        /\ (env = "production") => ~CarriesDetail(res[1].body)

\* C19: a login with the email and password of an account, whose UPDATE of
\* last_login fails, is still answered 200 with a token and the user object
C19_LastLoginBestEffort ==
    (/\ req.route = "login"
     /\ ValidCredentials(req.body)
     /\ req.failAt = 2) =>
        /\ Len(res) = 1 /\ res[1].status = 200
        /\ DOMAIN res[1].body = {"token", "user"}

Probes == Len(boot.probeLog)

AttemptsFailed == Retries - boot.retries

\* what C20 says of every state apart from the cause of the exit: at most 5
\* probes, one wait of 5 s between consecutive attempts and so at most 4,
\* listening at most once and only after a probe that succeeded, no listening
\* once exited
StartupBounded ==
    /\ Probes <= 5
    /\ boot.delays <= 4
    /\ boot.waited = 5000 * boot.delays
    /\ boot.pc \in {"probe", "delay"} => boot.delays = Probes - (IF boot.pc = "probe" THEN 0 ELSE 1)
    /\ boot.pc \in {"listening", "exited"} => boot.delays = Probes - 1
    /\ boot.listens = (IF boot.pc = "listening" THEN 1 ELSE 0)
    /\ boot.pc = "listening" => boot.probeLog[Probes]
    /\ boot.exit \in {{}, {1}}
    /\ (boot.exit # {}) = (boot.pc = "exited")

\* once listening or exited, startServer does nothing more: no probe, no wait,
\* no second listen
StartupSettled ==
    [][boot.pc \in {"listening", "exited"} => boot' = boot]_vars

StartupEnds == <>(boot.pc \in {"listening", "exited"})

\* the fifth probe was made and failed
FifthProbeFailed == Probes = 5 /\ ~boot.probeLog[5]

\* C20 as stated: startup ends; at most 5 probes with 5 s between consecutive
\* attempts; it listens once and only after a successful probe; it exits with
\* code 1 exactly when the fifth probe fails; nothing follows listening or exit
C20_Original ==
    /\ [](StartupBounded /\ ((boot.exit = {1}) = FifthProbeFailed))
    /\ StartupSettled
    /\ StartupEnds

\* C20, amended: the exit with code 1 comes exactly when the fifth attempt
\* fails, by its probe or by app.listen throwing, or when the port cannot be
\* bound after a probe that succeeded
C20_StartupTerminates ==
    /\ [](StartupBounded
          /\ ((boot.exit = {1}) =
                 \/ AttemptsFailed = 5
                 \/ (boot.port = "taken" /\ Probes > 0 /\ boot.probeLog[Probes])))
    /\ StartupSettled
    /\ StartupEnds

\* four probes failed, four waits, the fifth probe succeeded, the server
\* listens and has answered a login
C20_Witness ==
    /\ boot.pc = "listening"
    /\ boot.probeLog = <<FALSE, FALSE, FALSE, FALSE, TRUE>>
    /\ boot.delays = 4
    /\ req.route = "login"

\* five probes failed and the process exited with code 1
C20_WitnessExit ==
    /\ boot.probeLog = <<FALSE, FALSE, FALSE, FALSE, FALSE>>
    /\ boot.exit = {1}

---------------------------------------------------------------------------
(* Requests in flight together *)

\* this step sent the response of a handler that had been awaiting its second
\* statement
Finishes(route) ==
    /\ req'.route = route
    /\ Len(pending') < Len(pending)

\* the row holds what storing the fields gives: each as given, one left out
\* as null, the coordinates at the scale of their columns
StoredAs(r, fields) ==
    /\ \A f \in PayloadFields \ {"latitude", "longitude"} : r[f] = PgParam(fields[f])
    /\ RoundedFrom(r.latitude, fields.latitude)
    /\ RoundedFrom(r.longitude, fields.longitude)

\* C21: an update of a stored venue whose UPDATE statement runs while the
\* venue is stored, with a name and the storage answering, is answered 200
\* with the row, and the row then holds every field of that payload, whatever
\* other updates ran between its two statements; at all times a venue that
\* was updated holds all the fields of the payload of the UPDATE that ran
\* last on it, never some fields of one payload and some of another
C21_LastWriteWins ==
    /\ [](\A r \in restaurants :
             r.id \in DOMAIN updatedFrom => StoredAs(r, updatedFrom[r.id].fields))
    /\ [][(/\ Finishes("update")
           /\ req'.failAt = 0
           /\ SelectById(req'.body.id) # {}
           /\ PgParam(req'.body.fields.name) # Null) =>
              /\ Len(res') = 1 /\ res'[1].status = 200
              /\ \E r \in restaurants' :
                    /\ IntVal(r.id) = req'.body.id
                    /\ StoredAs(r, req'.body.fields)
                    /\ res'[1].body = r
                    /\ updatedFrom'[r.id].fields = req'.body.fields]_vars

\* an update answered 200 whose venue another update changed between its
\* SELECT and its UPDATE: the venue had the other payload's place id and now
\* has every field of this one
C21_Witness ==
    /\ req.route = "update"
    /\ Len(res) = 1 /\ res[1].status = 200
    /\ req.body.fields = SparsePayload
    /\ res[1].body # Undefined
    /\ updatedFrom[res[1].body.id].before.updated_at > req.body.began
    /\ updatedFrom[res[1].body.id].before.google_place_id = RoundedPayload.google_place_id
    /\ \E r \in restaurants :
          /\ r.id = res[1].body.id
          /\ r.google_place_id = Null /\ r.name = Str("Nobu")

\* C22: a create, an update or a delete that passed the verifier has sent at
\* most one statement to the storage when it answers, and no handler is ever
\* waiting between two statements of its own while others run
C22_OneStatement ==
    /\ pending = <<>>
    /\ (req.route \in {"create", "update", "delete"} /\ nextCalls = 1) => Len(stmts) <= 1

\* C23: an update answered 200 has the updated row as its body; an update
\* whose venue is gone when its UPDATE runs is answered 404; and no update
\* brings back a venue that is not stored
C23_UpdateAfterDelete ==
    [][Finishes("update") =>
          /\ (Len(res') = 1 /\ res'[1].status = 200) =>
                 /\ res'[1].body # Undefined
                 /\ res'[1].body \in restaurants'
          /\ (req'.failAt = 0 /\ SelectById(req'.body.id) = {}) =>
                 /\ Len(res') = 1 /\ res'[1].status = 404
          /\ SelectById(req'.body.id) = {} => restaurants' = restaurants]_vars

---------------------------------------------------------------------------
(* The places routes (part_003) *)

\* what the places-search collaborator resolves with
PlacesFound == Arr(<<"place-1", "place-2">>)
PlaceFound == [place_id |-> Str("place-1"), name |-> Str("Zuma")]

\* router.get('/search'): the query must be a non-empty string; one call of
\* searchPlaces; whatever it throws is a 500
PlacesSearchHandler(query, fails) ==
    IF Falsy(query) \/ query.t # "string"
    THEN Outcome(Response(400, [error |-> "Query parameter is required"]),
                 restaurants, nextId, <<>>)
    ELSE IF fails
    THEN Outcome(Response(500, [error |-> "Failed to search places"]),
                 restaurants, nextId, <<"searchPlaces">>)
    ELSE Outcome(Response(200, PlacesFound), restaurants, nextId, <<"searchPlaces">>)

\* router.get('/details/:placeId'): one call of getPlaceDetails; whatever it
\* throws is a 500
PlacesDetailsHandler(placeId, fails) ==
    IF fails
    THEN Outcome(Response(500, [error |-> "Failed to get place details"]),
                 restaurants, nextId, <<"getPlaceDetails">>)
    ELSE Outcome(Response(200, PlaceFound), restaurants, nextId, <<"getPlaceDetails">>)

\* req.query.query: absent, empty, a string, or an array when given twice
QueriesTried == {Undefined, Str(""), Str("zuma"), Arr(<<"zuma", "nobu">>)}

PlacesSearch ==
    \E h \in HeadersTried, q \in QueriesTried, fails \in BOOLEAN :
        Protected("placesSearch", "router", h, q, fails, PlacesSearchHandler(q, fails))

PlacesDetails ==
    \E h \in HeadersTried, fails \in BOOLEAN :
        Protected("placesDetails", "router", h, Str("place-1"), fails,
                  PlacesDetailsHandler(Str("place-1"), fails))

NextPlaces == PlacesSearch \/ PlacesDetails \/ Tick

SpecPlaces == Init /\ [][NextPlaces]_vars

\* C24: a places request that passed the verifier and whose upstream call
\* fails has made exactly one upstream call and is answered 502; a search
\* whose query parameter is not a non-empty string is answered 400 and makes
\* no upstream call
C24_UpstreamFailureIs502 ==
    (req.route \in {"placesSearch", "placesDetails"} /\ nextCalls = 1) =>
        /\ Len(res) = 1
        /\ Len(stmts) <= 1
        /\ (req.failAt = 1 /\ Len(stmts) = 1) => res[1].status = 502
        /\ (req.route = "placesSearch" /\ (req.body.t # "string" \/ req.body = Str(""))) =>
               (res[1].status = 400 /\ stmts = <<>>)

---------------------------------------------------------------------------
(* An update that collides on the place id *)

\* another venue than the one the request names holds the place id of the
\* request's payload
HeldByAnother(body) ==
    /\ PgParam(body.fields.google_place_id) # Null
    /\ SelectById(body.id) # {}
    /\ \E r \in restaurants :
          /\ IntVal(r.id) # body.id
          /\ r.google_place_id = body.fields.google_place_id

\* C25: an update whose payload has the place id of another stored venue is
\* answered 409 and changes no venue
C25_UpdateConflictIs409 ==
    [][(Finishes("update") /\ req'.failAt = 0 /\ HeldByAnother(req'.body)) =>
          /\ Len(res') = 1 /\ res'[1].status = 409
          /\ restaurants' = restaurants]_vars

---------------------------------------------------------------------------
(* The user table *)

\* C26: a step changes the user table only as a login answered 200, and then
\* only the last_login of the user who logged in, which becomes the time of
\* the login; the set of users never changes, and a login answered 200 with
\* the storage up always sets it
C26_OnlyLastLogin ==
    [][/\ DOMAIN users' = DOMAIN users
       /\ (users' # users) =>
              /\ req'.route = "login"
              /\ Len(res') = 1 /\ res'[1].status = 200
              /\ ValidCredentials(req'.body)
              /\ \A i \in DOMAIN users :
                    IF Str(users[i].email) = req'.body.email
                    THEN users'[i] = [users[i] EXCEPT !.last_login = Timestamp(now)]
                    ELSE users'[i] = users[i]
       /\ (req'.route = "login" /\ req' # req /\ res'[1].status = 200) =>
              users'[UserByEmail(req'.body.email)].last_login = Timestamp(now)]_vars

\* the second user logged in, their venue was then deleted by a request
\* answered 204, and both users are there, the second with that login time
\* and the first as seeded
C26_Witness ==
    /\ req.route = "delete"
    /\ Len(res) = 1 /\ res[1].status = 204
    /\ IntVal(1) \in deleted
    /\ restaurants = {}
    /\ users[2].last_login # Null
    /\ users[1] = SeededUsers[1]
    /\ DOMAIN users = {1, 2}

---------------------------------------------------------------------------
(* The scheme of the Authorization header *)

\* the header reads Bearer, one space, and something after it
BearerForm(header) ==
    /\ header.present
    /\ Len(header.sym) >= 3
    /\ header.sym[1] = Word("Bearer")
    /\ header.sym[2] = Sp
    /\ header.sym[3] # Sp

\* C27: a request to a protected route whose Authorization header is not of
\* the form Bearer <token> gets no identity and does not reach the handler
C27_BearerOnly ==
    (req.route \in ProtectedRoutes /\ ~BearerForm(req.header)) =>
        /\ nextCalls = 0
        /\ reqUser = Undefined
        /\ \A i \in DOMAIN res : res[i].by = "verifier"

---------------------------------------------------------------------------
(* The bulk import *)

\* this step is a turn of the import that reached the storage
Imports == req'.route = "import" /\ req' # req /\ req'.failAt = 0

\* the stored venue with the place id of the record
Holding(table, c) == {r \in table : r.google_place_id = c.google_place_id}

\* C28: an import of a record whose place id a stored venue has leaves the
\* number of venues as it was and that venue with its id, created_at and
\* added_by, a later updated_at and the name of the record; all other venues
\* are unchanged. An import of a record whose place id no venue has adds one
\* venue
C28_ImportUpserts ==
    [][Imports =>
          LET c == req'.body.record
          IN  IF Holding(restaurants, c) # {}
              THEN /\ Cardinality(restaurants') = Cardinality(restaurants)
                   /\ restaurants \ Holding(restaurants, c) \subseteq restaurants'
                   /\ \A old \in Holding(restaurants, c) :
                         \E r \in Holding(restaurants', c) :
                            /\ r.id = old.id
                            /\ r.created_at = old.created_at
                            /\ r.added_by = old.added_by
                            /\ r.updated_at > old.updated_at
                            /\ r.name = c.name
              ELSE /\ Cardinality(restaurants') = Cardinality(restaurants) + 1
                   /\ restaurants \subseteq restaurants']_vars

\* the import has just run over a record whose venue a user had created
\* through the API: one venue as before, the user still its added_by, the
\* name that of the record
C28_Witness ==
    /\ req.route = "import"
    /\ req.failAt = 0
    /\ \E r \in Holding(restaurants, req.body.record) :
          /\ r.added_by = IntVal(2)
          /\ r.updated_at > r.created_at
          /\ r.name = req.body.record.name
          /\ r.id = 1

\* the same record imported twice by the earlier version: one venue, created
\* by the first run and updated by the second
C28_WitnessTwice ==
    /\ req.route = "import"
    /\ req.version = "part_009"
    /\ Cardinality(restaurants) = 1
    /\ \E r \in Holding(restaurants, req.body.record) :
          /\ r.added_by = Null
          /\ r.updated_at > r.created_at

---------------------------------------------------------------------------
(* What an update leaves alone *)

\* the columns of restaurants the UPDATE does not assign
KeptColumns == {"id", "created_at", "rating", "added_by", "last_modified_by"}

\* C29: an update that is answered 200 with a row changes no venue but the
\* one it names, and leaves that venue's id, created_at, rating, added_by
\* and last_modified_by as they were; an update answered otherwise changes
\* no venue at all
C29_UpdateFrame ==
    [][Finishes("update") =>
          IF Len(res') = 1 /\ res'[1].status = 200 /\ res'[1].body # Undefined
          THEN \E old \in SelectById(req'.body.id) :
                  /\ restaurants' = (restaurants \ {old}) \cup {res'[1].body}
                  /\ \A k \in KeptColumns : res'[1].body[k] = old[k]
                  /\ DOMAIN res'[1].body = DOMAIN old
          ELSE restaurants' = restaurants]_vars

\* an update by the second user of a venue the import had created, with
\* another venue stored: the rating is the import's and no actor is recorded
C29_Witness ==
    /\ req.route = "update"
    /\ Len(res) = 1 /\ res[1].status = 200
    /\ res[1].body # Undefined
    /\ reqUser.id = 2
    /\ res[1].body.rating # Null
    /\ res[1].body.added_by = Null
    /\ res[1].body.last_modified_by = Null
    /\ res[1].body.updated_at > res[1].body.created_at
    /\ Cardinality(restaurants) = 2

---------------------------------------------------------------------------
(* Required fields with falsy values *)

\* the body has the key with a value other than "", 0, false and null
Given(raw, k) ==
    \E i \in DOMAIN raw : raw[i].k = k /\ raw[i].v \notin {Null, Str(""), IntVal(0), Bool(FALSE)}

\* the body without the entries of required fields that are "", 0, false or
\* null
WithoutFalsy(raw) ==
    SelectSeq(raw, LAMBDA e : e.k \in {"price_range", "vibe", "is_licensed",
                                       "has_shisha", "google_place_id"}
                               \/ Given(<<e>>, e.k))

\* position of a name in name, category, latitude, longitude, address, seating
RequiredAt(k) == CHOOSE i \in 1..6 :
    <<"name", "category", "latitude", "longitude", "address", "seating">>[i] = k

\* C30: a create by the router whose body lacks a required field, or has it
\* as "", 0, false or null, is answered 400 and inserts nothing; missingFields
\* has exactly the names of those fields, each once, in the order name,
\* category, latitude, longitude, address, seating; and the response is the
\* one the same body gets with those entries taken out
C30_FalsyIsMissing ==
    (/\ req.route = "create" /\ req.version = "router"
     /\ nextCalls = 1
     /\ \E k \in {"name", "category", "latitude", "longitude", "address", "seating"} :
           ~Given(req.body, k)) =>
        /\ Len(res) = 1 /\ res[1].status = 400
        /\ stmts = <<>>
        /\ LET listed == res[1].body.missingFields
           IN  /\ {listed[i] : i \in DOMAIN listed}
                    = {k \in {"name", "category", "latitude", "longitude", "address",
                              "seating"} : ~Given(req.body, k)}
               /\ \A i, j \in DOMAIN listed :
                     i < j => RequiredAt(listed[i]) < RequiredAt(listed[j])
        /\ res[1] = Sent("handler",
                         CreateRouterHandler(Destructure(WithoutFalsy(req.body)),
                                             reqUser, FALSE).res)

\* a body written from google_place_id back to name, whose seating is false
\* and whose name is the empty string: both are listed, name first
C30_Witness ==
    /\ req.route = "create" /\ req.version = "router"
    /\ Len(req.body) = 11
    /\ req.body[1].k = "google_place_id"
    /\ req.body[4] = [k |-> "seating", v |-> Bool(FALSE)]
    /\ req.body[11] = [k |-> "name", v |-> Str("")]
    /\ Len(res) = 1 /\ res[1].status = 400
    /\ res[1].body.missingFields = <<"name", "seating">>

=============================================================================
